---- MODULE Spec2Model ----
(***************************************************************************)
(* A model of the "orange" range library (namespace orange, the most       *)
(* complete dialect) and of the later "range" dialect (namespace range).   *)
(*                                                                         *)
(* A range value is a record                                               *)
(*    [kind, b, e, arr, f, subs, tparam]                                   *)
(*  kind   : the C++ type of the range                                     *)
(*  b, e   : the two cursors (m_begin/m_end, first/second, m_b/m_e, m_i)   *)
(*  arr    : the name of the caller-owned array an iterator pair refers to *)
(*  f      : the function object stored in the range (m_f)                 *)
(*  subs   : the ranges stored by value inside the range (m_r, m_ranges)   *)
(*  tparam : the boolean template parameter of the type (is_infinite,      *)
(*           enforce_same_length); for owning_range<C>, whether C keeps    *)
(*           its elements inside the object (std::array) or in a heap      *)
(*           buffer (std::vector)                                          *)
(*                                                                         *)
(* Storage (an array, the buffer of a vector, the elements of a container  *)
(* held inside an object) is a named entry of mem; an iterator or a        *)
(* reference is the name of the storage and an index into it.              *)
(***************************************************************************)
EXTENDS Integers, Sequences, FiniteSets, TLC

VARIABLES
    r,        \* the range held by the caller
    parts,    \* ranges the caller has set aside as arguments of a zip
    mem,      \* caller-owned arrays, by name
    pc,       \* "live" while the caller works, "done" / "aborted" at the end
    last,     \* the operation executed by the last step
    out,      \* <<v>> : the value returned by the last primitive call
    res,      \* the container returned by collect / the values printed
    total,    \* the value returned by accumulate
    m_r,      \* the by-value copy a combinator worked on, as it left it
    log,      \* the calls of trait functions and of function objects that
              \* the observed operations have made so far, in order
    s0        \* the leaf sequence as the caller constructed it

vars == <<r, parts, mem, pc, last, out, res, total, m_r, log, s0>>

(***************************************************************************)
(* Bounds of the model.                                                    *)
(***************************************************************************)
MaxInt   == 3    \* interval bounds are drawn from 0..MaxInt
MaxDepth == 2    \* number of map / filter stages stacked on a leaf
MaxZip   == 2    \* number of ranges zipped together
MaxReach == 4    \* how far the caller drives an unbounded interval by hand
MaxMoves == 1    \* number of times an owning range is moved
MaxPast  == 1    \* calls of advance on a sequence that is already exhausted
MaxLen   == 4    \* length up to which push_back grows a vector
MaxTake  == 3    \* the counts handed to take_collect are -1..MaxTake
MaxStages == 1   \* map / filter stages of a pipeline drained step by step

(***************************************************************************)
(* Program constants.                                                      *)
(***************************************************************************)
INT_MAX      == 2147483647
TestUpper5   == 5
TestUpper10  == 10
DummyLimit   == 10

Rng(kind, b, e, arr, f, subs, tparam) ==
    [kind |-> kind, b |-> b, e |-> e, arr |-> arr, f |-> f, subs |-> subs,
     tparam |-> tparam]

(***************************************************************************)
(* Function objects.  A function object is a sequence of primitive         *)
(* functions applied left to right (a one-element sequence is one of the   *)
(* function objects of the test namespace, a longer one a lambda calling   *)
(* them in turn).                                                          *)
(***************************************************************************)
\* C++ operator % on int: the result has the sign of the dividend
CppRem(x, n) == IF x >= 0 THEN x % n ELSE -((-x) % n)

negate_t(x)         == -x
square(x)           == x * x
odd_t(x)            == CppRem(x, 2) = 1
even_t(x)           == CppRem(x, 2) = 0
greater_than_5_t(x) == x > 5

ApplyPrim(name, x) ==
    CASE name = "negate_t" -> negate_t(x)
      [] name = "square"   -> square(x)

RECURSIVE ApplyFunc(_, _)
ApplyFunc(F, x) ==
    IF F = <<>> THEN x ELSE ApplyFunc(Tail(F), ApplyPrim(Head(F), x))

ApplyPred(P, x) ==
    CASE Head(P) = "odd_t"            -> odd_t(x)
      [] Head(P) = "even_t"           -> even_t(x)
      [] Head(P) = "greater_than_5_t" -> greater_than_5_t(x)

Funcs == {<<"negate_t">>, <<"square">>}
Preds == {<<"odd_t">>, <<"even_t">>, <<"greater_than_5_t">>}

(***************************************************************************)
(* Constructors of the leaf ranges.                                        *)
(***************************************************************************)
pair_of_values(l, u) == Rng("pair_of_values", l, u, "", <<>>, <<>>, FALSE)

ints2(l, u) == pair_of_values(l, u)
ints1(u)    == pair_of_values(0, u)

\* the arrays of the test namespace
TestArrays == [x |-> <<7, 8, 9>>, i |-> <<1, 2, 3>>]

\* as_range(T (&v)[N]) : {std::begin(v), std::end(v)}
as_range_array(a) ==
    Rng("pair_of_iterators", 0, Len(mem[a]), a, <<>>, <<>>, FALSE)

\* std::make_pair(v.begin(), v.end())
std_pair(a) == Rng("std_pair", 0, Len(mem[a]), a, <<>>, <<>>, FALSE)

\* as_range(T &v) : {v.begin(), v.end()}
as_range_lvalue(a) ==
    Rng("pair_of_iterators", 0, Len(mem[a]), a, <<>>, <<>>, FALSE)

\* an owning_range whose m_r is built before m_c holds the container
owning_range_view_first(in_object, a) ==
    Rng("owning_range", 0, 0, a, <<>>,
        <<Rng("pair_of_iterators", 0, 0, a, <<>>, <<>>, FALSE)>>, in_object)

\* owning_range(C && c) : m_c(std::move(c)), m_r(as_range(m_c));
\* a is the storage of the elements of m_c
owning_range(in_object, a) ==
    Rng("owning_range", 0, 0, a, <<>>, <<as_range_lvalue(a)>>, in_object)

\* as_range(T (&&a)[N]) : {{std::move(a[Indices])...}, 0}
as_range_rvalue_C_array(a) ==
    Rng("owning_range_for_ye_olde_C_array", 0, Len(mem[a]), a, <<>>, <<>>, FALSE)

\* the storage of the elements of an object move-constructed from x: the
\* buffer of a vector is handed over, elements held inside the object are
\* moved one by one into the new object
moved_storage(x) ==
    IF x.kind = "owning_range" /\ ~x.tparam THEN x.arr ELSE x.arr \o "'"

\* owning_range(owning_range &&) = default, operator=(owning_range &&) =
\* default, and the same of owning_range_for_ye_olde_C_array : memberwise
defaulted_move(x) == [x EXCEPT !.arr = moved_storage(x)]

\* testing_namespace::dummy_int_range_with_pull_and_empty_only
dummy_int_range_with_pull_and_empty_only ==
    Rng("dummy_pull", 0, DummyLimit, "", <<>>, <<>>, FALSE)

\* the five primitives a trait can declare
Primitives == {"empty", "advance", "front_val", "front_ref", "pull"}

\* testing_namespace::orange_over_an_array<T,N> ({{...}, 0}) : m_array (the
\* storage a) and offset (b), with N in e.  Its trait declares empty, pull
\* and front_ref; the family declares(D, a) is this type with a trait that
\* declares the primitives in D, for every subset D
declares(D, a) == Rng("declares", 0, Len(mem[a]), a, <<>>, <<>>, D)

orange_over_an_array(a) == declares({"empty", "pull", "front_ref"}, a)

(***************************************************************************)
(* has_trait_* : which primitives the trait of a type declares.            *)
(***************************************************************************)
\* is_invokable_v on lookup_traits<R>::p, for a type of the family above
Declares(x, p) == x.kind = "declares" /\ p \in x.tparam

OrangeKinds == {"pair_of_values", "pair_of_iterators", "std_pair",
                "dummy_pull", "mapping_range", "filter_range", "zip_t",
                "owning_range", "owning_range_for_ye_olde_C_array"}

has_trait_empty(x) ==
    x.kind \in OrangeKinds \/ Declares(x, "empty")

has_trait_advance(x) ==
    x.kind \in OrangeKinds \ {"dummy_pull"} \/ Declares(x, "advance")

has_trait_front_val(x) ==
    \/ x.kind \in {"pair_of_values", "pair_of_iterators", "mapping_range",
                   "filter_range", "zip_t", "owning_range"}
    \/ Declares(x, "front_val")

has_trait_front_ref(x) ==
    \/ x.kind \in {"pair_of_iterators", "std_pair", "owning_range",
                   "owning_range_for_ye_olde_C_array"}
    \/ Declares(x, "front_ref")

has_trait_pull(x) ==
    x.kind = "dummy_pull" \/ Declares(x, "pull")

(***************************************************************************)
(* The public functions of namespace orange (orange::empty, ...) are       *)
(* synthesized from the trait functions; the trait functions of the        *)
(* combinator types call the public functions on the ranges they store.    *)
(***************************************************************************)
RECURSIVE orange_empty(_), orange_front_val(_), orange_advance(_)
RECURSIVE orange_front_ref(_)

\* a reference is the location it refers to
Deref(loc) == mem[loc.arr][loc.idx + 1]

\* pair_of_values
pair_of_values_orange_empty(x)     == x.b = x.e
pair_of_values_orange_front_val(x) == x.b
pair_of_values_orange_advance(x)   == [x EXCEPT !.b = x.b + 1]

\* traits<pair_of_iterators<B,E>> and traits<std::pair<I,J>>
iterators_empty(x)     == x.b = x.e
iterators_advance(x)   == [x EXCEPT !.b = x.b + 1]
iterators_front_ref(x) == [arr |-> x.arr, idx |-> x.b]
iterators_front_val(x) == Deref(iterators_front_ref(x))

\* owning_range_for_ye_olde_C_array<T,N> : m_array, m_offset (b) and N (e)
C_array_orange_empty(x)     == x.b >= x.e
C_array_orange_advance(x)   == [x EXCEPT !.b = x.b + 1]
C_array_orange_front_ref(x) == [arr |-> x.arr, idx |-> x.b]

\* owning_range<C> : every primitive is forwarded to m_r
owning_range_orange_empty(x)     == orange_empty(x.subs[1])
owning_range_orange_front_val(x) == orange_front_val(x.subs[1])
owning_range_orange_front_ref(x) == orange_front_ref(x.subs[1])

owning_range_orange_advance(x) ==
    [x EXCEPT !.subs = <<orange_advance(x.subs[1])>>]

\* orange_over_an_array : empty(), pull(), front_ref(), front_val(); a
\* type of the family that declares advance steps its offset
declares_empty(x)     == x.b >= x.e
declares_front_ref(x) == [arr |-> x.arr, idx |-> x.b]
declares_front_val(x) == Deref([arr |-> x.arr, idx |-> x.b])
declares_advance(x)   == [x EXCEPT !.b = x.b + 1]

declares_pull(x) ==
    [val |-> Deref([arr |-> x.arr, idx |-> x.b]), r |-> [x EXCEPT !.b = x.b + 1]]

\* dummy_int_range_with_pull_and_empty_only
dummy_orange_empty(x) == x.b >= DummyLimit
dummy_orange_pull(x)  == [val |-> x.b, r |-> [x EXCEPT !.b = x.b + 1]]

\* mapping_range
mapping_range_orange_empty(x) == orange_empty(x.subs[1])

mapping_range_orange_advance(x) ==
    [x EXCEPT !.subs = <<orange_advance(x.subs[1])>>]

\* a front_val that does not call m_f
mapping_range_front_val_no_call(x) == orange_front_val(x.subs[1])

\* a front_val that reads past a mapping_range stored in m_r
mapping_range_front_val_inner(x) ==
    ApplyFunc(x.f, IF x.subs[1].kind = "mapping_range"
                   THEN orange_front_val(x.subs[1].subs[1])
                   ELSE orange_front_val(x.subs[1]))

mapping_range_orange_front_val(x) ==
    ApplyFunc(x.f, orange_front_val(x.subs[1]))

\* filter_range
\* a skip that tests the predicate once instead of looping
skip_once(x) ==
    IF ~orange_empty(x.subs[1]) /\ ~ApplyPred(x.f, orange_front_val(x.subs[1]))
    THEN [x EXCEPT !.subs = <<orange_advance(x.subs[1])>>]
    ELSE x

RECURSIVE skip_if_necessary(_)
skip_if_necessary(x) ==
    IF ~orange_empty(x.subs[1]) /\ ~ApplyPred(x.f, orange_front_val(x.subs[1]))
    THEN skip_if_necessary([x EXCEPT !.subs = <<orange_advance(x.subs[1])>>])
    ELSE x

filter_range_orange_empty(x)     == orange_empty(x.subs[1])
filter_range_orange_front_val(x) == orange_front_val(x.subs[1])

filter_range_orange_advance(x) ==
    skip_if_necessary([x EXCEPT !.subs = <<orange_advance(x.subs[1])>>])

\* zip_t::zip_helper
all_true(bs) == \A k \in DOMAIN bs : bs[k]

zip_empty(z) == ~all_true([k \in DOMAIN z.subs |-> ~orange_empty(z.subs[k])])

\* an advance that moves the first member only
zip_advance_first_only(z) ==
    [z EXCEPT !.subs = [k \in DOMAIN z.subs |->
        IF k = 1 THEN orange_advance(z.subs[k]) ELSE z.subs[k]]]

zip_advance(z) ==
    [z EXCEPT !.subs = [k \in DOMAIN z.subs |-> orange_advance(z.subs[k])]]

\* enum_zip_policy_on_references::values_only
get_one_item_to_return(z, k) == orange_front_val(z.subs[k])

zip_front_val(z) == [k \in DOMAIN z.subs |-> get_one_item_to_return(z, k)]

\* lookup_traits<R>::empty / front_val / front_ref / advance / pull
traits_empty(x) ==
    CASE x.kind = "pair_of_values"    -> pair_of_values_orange_empty(x)
      [] x.kind = "pair_of_iterators" -> iterators_empty(x)
      [] x.kind = "std_pair"          -> iterators_empty(x)
      [] x.kind = "dummy_pull"        -> dummy_orange_empty(x)
      [] x.kind = "mapping_range"     -> mapping_range_orange_empty(x)
      [] x.kind = "filter_range"      -> filter_range_orange_empty(x)
      [] x.kind = "zip_t"             -> zip_empty(x)
      [] x.kind = "owning_range"      -> owning_range_orange_empty(x)
      [] x.kind = "owning_range_for_ye_olde_C_array"
                                      -> C_array_orange_empty(x)
      [] x.kind = "declares"          -> declares_empty(x)

traits_front_val(x) ==
    CASE x.kind = "pair_of_values"    -> pair_of_values_orange_front_val(x)
      [] x.kind = "pair_of_iterators" -> iterators_front_val(x)
      [] x.kind = "mapping_range"     -> mapping_range_orange_front_val(x)
      [] x.kind = "filter_range"      -> filter_range_orange_front_val(x)
      [] x.kind = "zip_t"             -> zip_front_val(x)
      [] x.kind = "owning_range"      -> owning_range_orange_front_val(x)
      [] x.kind = "declares"          -> declares_front_val(x)

traits_front_ref(x) ==
    CASE x.kind = "pair_of_iterators" -> iterators_front_ref(x)
      [] x.kind = "std_pair"          -> iterators_front_ref(x)
      [] x.kind = "owning_range"      -> owning_range_orange_front_ref(x)
      [] x.kind = "owning_range_for_ye_olde_C_array"
                                      -> C_array_orange_front_ref(x)
      [] x.kind = "declares"          -> declares_front_ref(x)

traits_advance(x) ==
    CASE x.kind = "pair_of_values"    -> pair_of_values_orange_advance(x)
      [] x.kind = "pair_of_iterators" -> iterators_advance(x)
      [] x.kind = "std_pair"          -> iterators_advance(x)
      [] x.kind = "mapping_range"     -> mapping_range_orange_advance(x)
      [] x.kind = "filter_range"      -> filter_range_orange_advance(x)
      [] x.kind = "zip_t"             -> zip_advance(x)
      [] x.kind = "owning_range"      -> owning_range_orange_advance(x)
      [] x.kind = "owning_range_for_ye_olde_C_array"
                                      -> C_array_orange_advance(x)
      [] x.kind = "declares"          -> declares_advance(x)

traits_pull(x) ==
    CASE x.kind = "dummy_pull" -> dummy_orange_pull(x)
      [] x.kind = "declares"   -> declares_pull(x)

orange_empty(x) == traits_empty(x)

orange_front_val(x) ==
    IF has_trait_front_val(x)
    THEN traits_front_val(x)
    ELSE Deref(traits_front_ref(x))

orange_front_ref(x) == traits_front_ref(x)

orange_advance(x) == traits_advance(x)

\* a pull that copies the element after advancing instead of before
orange_pull_advance_first(x) ==
    IF has_trait_pull(x)
    THEN traits_pull(x)
    ELSE [val |-> IF orange_empty(traits_advance(x))
                  THEN orange_front_val(x)
                  ELSE orange_front_val(traits_advance(x)),
          r   |-> traits_advance(x)]

orange_pull(x) ==
    IF has_trait_pull(x)
    THEN traits_pull(x)
    ELSE IF has_trait_front_val(x) /\ has_trait_advance(x)
    THEN [val |-> traits_front_val(x), r |-> traits_advance(x)]
    ELSE [val |-> Deref(traits_front_ref(x)), r |-> traits_advance(x)]

(***************************************************************************)
(* The range types built by the combinators.                               *)
(***************************************************************************)
mapping_range(s, F) == Rng("mapping_range", 0, 0, "", F, <<s>>, FALSE)

\* a constructor that forgets to call skip_if_necessary
filter_range_no_skip(s, P) == Rng("filter_range", 0, 0, "", P, <<s>>, FALSE)

filter_range(s, P) ==
    skip_if_necessary(Rng("filter_range", 0, 0, "", P, <<s>>, FALSE))

zip_val(rs) == Rng("zip_t", 0, 0, "", <<>>, rs, FALSE)

(***************************************************************************)
(* The terminal combinators, as the loops of their operator| .             *)
(***************************************************************************)
RECURSIVE collect_loop(_, _)
collect_loop(x, acc) ==
    IF ~orange_empty(x)
    THEN collect_loop(orange_pull(x).r, Append(acc, orange_pull(x).val))
    ELSE [res |-> acc, r |-> x]

\* a collect that puts each element at the front of the container
RECURSIVE collect_loop_front(_, _)
collect_loop_front(x, acc) ==
    IF ~orange_empty(x)
    THEN collect_loop_front(orange_pull(x).r, <<orange_pull(x).val>> \o acc)
    ELSE [res |-> acc, r |-> x]

collect_push_front(x) == collect_loop_front(x, <<>>)

collect(x) == collect_loop(x, <<>>)

RECURSIVE accumulate_loop(_, _)
accumulate_loop(x, tot) ==
    IF ~orange_empty(x)
    THEN accumulate_loop(orange_pull(x).r, tot + orange_pull(x).val)
    ELSE [total |-> tot, r |-> x]

\* an accumulator that does not start at zero
accumulate_from_one(x) == accumulate_loop(x, 1)

accumulate(x) == accumulate_loop(x, 0)

\* operator| (forward_this_with_a_tag<R,take_collect_tag_t> f, int how_many)
RECURSIVE take_collect_loop(_, _, _)
take_collect_loop(x, how_many, acc) ==
    IF ~orange_empty(x) /\ how_many > 0
    THEN take_collect_loop(orange_advance(x), how_many - 1,
                           Append(acc, orange_front_val(x)))
    ELSE [res |-> acc, r |-> x]

\* a loop that tests how_many >= 0
RECURSIVE take_collect_loop_ge(_, _, _)
take_collect_loop_ge(x, how_many, acc) ==
    IF ~orange_empty(x) /\ how_many >= 0
    THEN take_collect_loop_ge(orange_advance(x), how_many - 1,
                              Append(acc, orange_front_val(x)))
    ELSE [res |-> acc, r |-> x]

take_collect_one_more(x, how_many) == take_collect_loop_ge(x, how_many, <<>>)

take_collect(x, how_many) == take_collect_loop(x, how_many, <<>>)

\* the functions handed to foreach: negate_me_in_place takes int &, a
\* lambda [](auto x){...} takes its argument by value
ForeachFuncs == {"negate_me_in_place", "by_value"}

\* a call that hands func a copy of the element
call_func_on_copy(func, m, loc) == m

\* func(orange::front_ref(r.m_r)) : the memory after the call
call_func(func, m, loc) ==
    IF func = "negate_me_in_place"
    THEN [m EXCEPT ![loc.arr][loc.idx + 1] = -@]
    ELSE m

\* operator| (forward_this_with_a_tag<R,foreach_tag_t> r, Func && func),
\* has_trait_front_ref<R> : calls is the sequence of the elements func saw
RECURSIVE foreach_ref_loop(_, _, _, _)
foreach_ref_loop(x, func, m, calls) ==
    IF ~orange_empty(x)
    THEN foreach_ref_loop(orange_advance(x), func,
                          call_func(func, m, orange_front_ref(x)),
                          Append(calls, m[orange_front_ref(x).arr]
                                         [orange_front_ref(x).idx + 1]))
    ELSE [calls |-> calls, mem |-> m, r |-> x]

\* the overload for !has_trait_front_ref<R> : func(orange::pull(r.m_r))
RECURSIVE foreach_pull_loop(_, _, _)
foreach_pull_loop(x, m, calls) ==
    IF ~orange_empty(x)
    THEN foreach_pull_loop(orange_pull(x).r, m, Append(calls, orange_pull(x).val))
    ELSE [calls |-> calls, mem |-> m, r |-> x]

\* a foreach that returns after the first element
foreach_first_only(x, func, m) ==
    IF orange_empty(x)
    THEN [calls |-> <<>>, mem |-> m, r |-> x]
    ELSE [calls |-> <<orange_pull(x).val>>, mem |-> m, r |-> orange_pull(x).r]

foreach(x, func, m) ==
    IF has_trait_front_ref(x)
    THEN foreach_ref_loop(x, func, m, <<>>)
    ELSE foreach_pull_loop(x, m, <<>>)

(***************************************************************************)
(* The "range" dialect: ranges are objects with methods, empty() of a      *)
(* strict zip asserts.  The outcome of a call of empty() is "true",        *)
(* "false", or "assert" when an assertion fails during the call (assert    *)
(* is taken as written: the build does not define NDEBUG).                 *)
(***************************************************************************)
RangeKinds == {"range_ints_t", "zip_val_t", "from_vector_t"}

range_ints_t(b, e, is_infinite) ==
    Rng("range_ints_t", b, e, "", <<>>, <<>>, is_infinite)

range_ints1(e)    == range_ints_t(0, e, FALSE)
range_ints0       == range_ints_t(0, INT_MAX, TRUE)
range_ints2(b, e) == range_ints_t(b, e, FALSE)

\* from_vector(V &&v) : from_vector_t<V>(v, 0), a the storage of the vector
from_vector(a) == Rng("from_vector_t", 0, 0, a, <<>>, <<>>, FALSE)

\* an empty() that tests m_i == m_v.size()
from_vector_t_empty_eq(x) == x.b = Len(mem[x.arr])

from_vector_t_empty(x) == x.b >= Len(mem[x.arr])

\* front_ref() is m_v.at(m_i), which throws when m_i is not an index
from_vector_t_front_ref_throws(x) == ~(x.b < Len(mem[x.arr]))
from_vector_t_front_ref(x)        == [arr |-> x.arr, idx |-> x.b]

\* push_back(t) : m_v.push_back(t), the memory after the call
from_vector_t_push_back(x, t) == [mem EXCEPT ![x.arr] = Append(@, t)]

zip_val_t(enforce_same_length, rs) ==
    Rng("zip_val_t", 0, 0, "", <<>>, rs, enforce_same_length)

range_zip_val(rs) == zip_val_t(TRUE, rs)

\* a relaxed zip instantiated with enforce_same_length = true
zip_relax_length_strict(rs) == zip_val_t(TRUE, rs)

zip_relax_length(rs) == zip_val_t(FALSE, rs)

\* detail::is_definitely_infinite_impl : the method if there is one, else false
is_definitely_infinite(x) ==
    IF x.kind = "range_ints_t" THEN x.tparam ELSE FALSE

RECURSIVE range_empty(_), range_advance(_), range_front_val(_)

\* an empty() without the assertion
zip_val_t_empty_no_check(z) ==
    IF \E k \in DOMAIN z.subs : range_empty(z.subs[k]) = "assert"
    THEN "assert"
    ELSE IF \A k \in DOMAIN z.subs : range_empty(z.subs[k]) = "false"
    THEN "false"
    ELSE "true"

\* an empty() that is true only when every member is empty
zip_val_t_empty_all(z) ==
    IF \E k \in DOMAIN z.subs : range_empty(z.subs[k]) = "assert"
    THEN "assert"
    ELSE IF \E k \in DOMAIN z.subs : range_empty(z.subs[k]) = "false"
    THEN "false"
    ELSE "true"

zip_val_t_empty(z) ==
    IF \E k \in DOMAIN z.subs : range_empty(z.subs[k]) = "assert"
    THEN "assert"
    ELSE IF \A k \in DOMAIN z.subs : range_empty(z.subs[k]) = "false"
    THEN "false"
    ELSE IF /\ z.tparam
            /\ ~(\A k \in DOMAIN z.subs :
                    \/ is_definitely_infinite(z.subs[k])
                    \/ range_empty(z.subs[k]) = "true")
    THEN "assert"
    ELSE "true"

zip_val_t_advance(z) ==
    [z EXCEPT !.subs = [k \in DOMAIN z.subs |-> range_advance(z.subs[k])]]

zip_val_t_front_val(z) ==
    [k \in DOMAIN z.subs |-> range_front_val(z.subs[k])]

range_empty(x) ==
    CASE x.kind = "range_ints_t"  -> IF x.b = x.e THEN "true" ELSE "false"
      [] x.kind = "zip_val_t"     -> zip_val_t_empty(x)
      [] x.kind = "from_vector_t" -> IF from_vector_t_empty(x)
                                     THEN "true" ELSE "false"

range_advance(x) ==
    CASE x.kind = "range_ints_t"  -> [x EXCEPT !.b = x.b + 1]
      [] x.kind = "zip_val_t"     -> zip_val_t_advance(x)
      [] x.kind = "from_vector_t" -> [x EXCEPT !.b = x.b + 1]

\* whether front_val(x) leaves by an exception instead of returning
range_front_val_throws(x) ==
    x.kind = "from_vector_t" /\ from_vector_t_front_ref_throws(x)

\* impl::front_val_impl : the front_val() method, else a copy of front_ref()
range_front_val(x) ==
    CASE x.kind = "range_ints_t"  -> x.b
      [] x.kind = "zip_val_t"     -> zip_val_t_front_val(x)
      [] x.kind = "from_vector_t" -> Deref(from_vector_t_front_ref(x))

\* impl::pull_impl, priority_tag<2> : no type here has a pull() method;
\* threw names the exception that ended the call, if one did
range_pull(x) ==
    IF range_front_val_throws(x)
    THEN [threw |-> "std::out_of_range", r |-> x]
    ELSE [threw |-> "none", val |-> range_front_val(x), r |-> range_advance(x)]

\* operator<< (std::ostream &, R r) : prints every element of its copy of r
RECURSIVE print_loop(_, _)
print_loop(x, acc) ==
    LET y    == range_advance(x)
        acc2 == Append(acc, range_front_val(x))
    IN  CASE range_empty(y) = "true"   -> [res |-> acc2, r |-> y, aborted |-> FALSE]
          [] range_empty(y) = "assert" -> [res |-> acc2, r |-> y, aborted |-> TRUE]
          [] range_empty(y) = "false"  -> print_loop(y, acc2)

operator_shl(x) ==
    CASE range_empty(x) = "true"   -> [res |-> <<>>, r |-> x, aborted |-> FALSE]
      [] range_empty(x) = "assert" -> [res |-> <<>>, r |-> x, aborted |-> TRUE]
      [] range_empty(x) = "false"  -> print_loop(x, <<>>)

(***************************************************************************)
(* The state machine: a caller builds a pipeline, drives it by hand with   *)
(* the primitives, and hands it to a terminal combinator.                  *)
(***************************************************************************)
IsLeaf(x)    == x.subs = <<>>
IntValued(x) == x.kind \notin {"zip_t", "zip_val_t"}
Readable(x)  == has_trait_front_val(x) \/ has_trait_front_ref(x)

RECURSIVE Depth(_)
Depth(x) == IF x.kind \in {"mapping_range", "filter_range"}
            THEN 1 + Depth(x.subs[1]) ELSE 0

Bounds01 == {<<l, u>> \in (0..MaxInt) \X (0..MaxInt) : l <= u}

OrangeLeaves ==
       {ints2(b[1], b[2]) : b \in Bounds01}
  \cup {ints1(TestUpper5), ints1(TestUpper10)}
  \cup {as_range_array(a) : a \in {"x", "i"}}
  \cup {std_pair("x")}

RangeLeaves ==
       {range_ints2(b[1], b[2]) : b \in Bounds01}
  \cup {range_ints1(TestUpper5), range_ints0}

Init ==
    /\ mem = TestArrays
    /\ r \in OrangeLeaves \cup {dummy_int_range_with_pull_and_empty_only}
                          \cup RangeLeaves
    /\ parts = <<>>
    /\ pc = "live"
    /\ last = "init"
    /\ out = <<>>
    /\ res = <<>>
    /\ total = 0
    /\ m_r = r
    /\ log = <<>>
    /\ s0 = r

Live == pc = "live" /\ parts = <<>>

\* r |mapr| F
MapR(F) ==
    /\ Live /\ r.kind \in OrangeKinds /\ IntValued(r) /\ Readable(r)
    /\ Depth(r) < MaxDepth
    /\ r' = mapping_range(r, F)
    /\ last' = "mapr"
    /\ UNCHANGED <<parts, mem, pc, out, res, total, m_r, log, s0>>

\* r |filter| P
Filter(P) ==
    /\ Live /\ r.kind \in OrangeKinds /\ IntValued(r) /\ Readable(r)
    /\ Depth(r) < MaxDepth
    /\ r' = filter_range(r, P)
    /\ last' = "filter"
    /\ UNCHANGED <<parts, mem, pc, out, res, total, m_r, log, s0>>

\* the caller keeps r as an argument of a later zip and makes another range
PushMember(nr) ==
    /\ pc = "live" /\ IsLeaf(r) /\ Readable(r)
    /\ Len(parts) < MaxZip - 1
    /\ parts' = Append(parts, r)
    /\ r' = nr
    /\ last' = "member"
    /\ UNCHANGED <<mem, pc, out, res, total, m_r, log, s0>>

\* zip_val(parts..., r)
ZipVal ==
    /\ pc = "live" /\ parts # <<>> /\ IsLeaf(r) /\ Readable(r)
    /\ r' = zip_val(Append(parts, r))
    /\ parts' = <<>>
    /\ last' = "zip_val"
    /\ UNCHANGED <<mem, pc, out, res, total, m_r, log, s0>>

\* orange::advance(r), by a caller that has tested empty(r)
Advance ==
    /\ Live /\ r.kind \in OrangeKinds /\ has_trait_advance(r)
    /\ ~orange_empty(r)
    /\ r' = orange_advance(r)
    /\ last' = "advance"
    /\ UNCHANGED <<parts, mem, pc, out, res, total, m_r, log, s0>>

\* orange::pull(r), by a caller that has tested empty(r)
Pull ==
    /\ Live /\ r.kind \in OrangeKinds
    /\ ~orange_empty(r)
    /\ r' = orange_pull(r).r
    /\ out' = <<orange_pull(r).val>>
    /\ last' = "pull"
    /\ UNCHANGED <<parts, mem, pc, res, total, m_r, log, s0>>

\* r | collect
Collect ==
    /\ Live /\ r.kind \in OrangeKinds
    /\ res' = collect(r).res
    /\ m_r' = collect(r).r
    /\ pc' = "done"
    /\ last' = "collect"
    /\ UNCHANGED <<r, parts, mem, out, total, log, s0>>

\* r | accumulate
Accumulate ==
    /\ Live /\ r.kind \in OrangeKinds /\ IntValued(r)
    /\ total' = accumulate(r).total
    /\ m_r' = accumulate(r).r
    /\ pc' = "done"
    /\ last' = "accumulate"
    /\ UNCHANGED <<r, parts, mem, out, res, log, s0>>

(***************************************************************************)
(* The caller of the "range" dialect.                                      *)
(***************************************************************************)
RangePushMember(nr) ==
    /\ pc = "live" /\ r.kind = "range_ints_t"
    /\ Len(parts) < MaxZip - 1
    /\ parts' = Append(parts, r)
    /\ r' = nr
    /\ last' = "member"
    /\ UNCHANGED <<mem, pc, out, res, total, m_r, log, s0>>

\* range::zip_val(parts..., r) : enforce_same_length = true
RangeZipVal ==
    /\ pc = "live" /\ parts # <<>> /\ r.kind = "range_ints_t"
    /\ r' = range_zip_val(Append(parts, r))
    /\ parts' = <<>>
    /\ last' = "zip_val"
    /\ UNCHANGED <<mem, pc, out, res, total, m_r, log, s0>>

\* range::zip_relax_length(parts..., r) : enforce_same_length = false
ZipRelaxLength ==
    /\ pc = "live" /\ parts # <<>> /\ r.kind = "range_ints_t"
    /\ r' = zip_relax_length(Append(parts, r))
    /\ parts' = <<>>
    /\ last' = "zip_relax_length"
    /\ UNCHANGED <<mem, pc, out, res, total, m_r, log, s0>>

\* range::empty(r) : returns, or the assertion inside it fails
RangeEmpty ==
    /\ Live /\ r.kind \in RangeKinds
    /\ out' = <<range_empty(r)>>
    /\ pc' = IF range_empty(r) = "assert" THEN "aborted" ELSE pc
    /\ last' = "empty"
    /\ UNCHANGED <<r, parts, mem, res, total, m_r, log, s0>>

\* an unbounded interval is driven a bounded number of steps
WithinReach(x) ==
    /\ x.tparam => x.b < MaxReach
    /\ \A k \in DOMAIN x.subs : x.subs[k].tparam => x.subs[k].b < MaxReach

\* range::pull(r), by a caller that has seen empty(r) return false
RangePull ==
    /\ Live /\ r.kind \in RangeKinds /\ WithinReach(r)
    /\ range_empty(r) = "false"
    /\ r' = range_pull(r).r
    /\ out' = <<range_pull(r).val>>
    /\ last' = "pull"
    /\ UNCHANGED <<parts, mem, pc, res, total, m_r, log, s0>>

\* a zip of infinite ranges only is never printed to its end
Printable(x) ==
    \/ x.kind = "range_ints_t" /\ ~x.tparam
    \/ x.kind = "zip_val_t" /\ \E k \in DOMAIN x.subs : ~x.subs[k].tparam

\* std::cout << r
StreamOut ==
    /\ Live /\ r.kind \in RangeKinds /\ Printable(r)
    /\ res' = operator_shl(r).res
    /\ m_r' = operator_shl(r).r
    /\ pc' = IF operator_shl(r).aborted THEN "aborted" ELSE "done"
    /\ last' = "print"
    /\ UNCHANGED <<r, parts, mem, out, total, log, s0>>

Next ==
    \/ \E F \in Funcs : MapR(F)
    \/ \E P \in Preds : Filter(P)
    \/ \E nr \in OrangeLeaves : PushMember(nr)
    \/ ZipVal
    \/ Advance
    \/ Pull
    \/ Collect
    \/ Accumulate
    \/ \E nr \in RangeLeaves : RangePushMember(nr)
    \/ RangeZipVal
    \/ ZipRelaxLength
    \/ RangeEmpty
    \/ RangePull
    \/ StreamOut

Spec == Init /\ [][Next]_vars

(***************************************************************************)
(* A second caller, for what touches storage: containers handed over to    *)
(* owning ranges, moves, writes through references, containers collected   *)
(* and read back, and calls on sequences that are already exhausted.       *)
(***************************************************************************)
\* the containers of the tests: std::vector<int>{1,2,3}, (int[]){10,20,30},
\* int x[] = {1980, 1982, 1986, 1990}, and an empty vector
Containers == {<<>>, <<1, 2, 3>>, <<10, 20, 30>>, <<1980, 1982, 1986, 1990>>}

OwningKinds == {"owning_range", "owning_range_for_ye_olde_C_array"}

RECURSIVE LeafOf(_)
LeafOf(x) == IF x.subs = <<>> THEN x ELSE LeafOf(x.subs[1])

\* draining x ends within the model: the interval under it is not the
\* unbounded one, and its cursor has not been driven past its end
Drainable(x) ==
    LeafOf(x).kind = "pair_of_values" =>
        (LeafOf(x).e # INT_MAX /\ LeafOf(x).b <= LeafOf(x).e)

StorageLeaves ==
       {owning_range(in_object, "c") : in_object \in BOOLEAN}
  \cup (IF mem["c"] # <<>> THEN {as_range_rvalue_C_array("c")} ELSE {})
  \cup {as_range_lvalue("c"), std_pair("c")}
  \cup {ints2(b[1], b[2]) : b \in Bounds01}
  \cup {pair_of_values(0, INT_MAX)}
  \cup {from_vector("c")}
  \cup {range_ints2(b[1], b[2]) : b \in Bounds01}

InitStorage ==
    /\ \E c \in Containers : mem = ("c" :> c) @@ TestArrays
    /\ r \in StorageLeaves
    /\ parts = <<>>
    /\ pc = "live"
    /\ last = "init"
    /\ out = <<>>
    /\ res = <<>>
    /\ total = 0
    /\ m_r = r
    /\ log = <<>>
    /\ s0 = r

\* negate_me_in_place(orange::front_ref(r)), once, on the first element
Write ==
    /\ Live /\ r.kind \in OrangeKinds /\ has_trait_front_ref(r)
    /\ ~orange_empty(r)
    /\ orange_front_ref(r).idx = 0 /\ Deref(orange_front_ref(r)) > 0
    /\ mem' = call_func("negate_me_in_place", mem, orange_front_ref(r))
    /\ last' = "write"
    /\ UNCHANGED <<r, parts, pc, out, res, total, m_r, log, s0>>

\* auto r2 = std::move(r), the caller goes on with r2
MoveConstruct ==
    /\ Live /\ r.kind \in OwningKinds
    /\ Len(r.arr) <= MaxMoves
    /\ r' = defaulted_move(r)
    /\ mem' = (moved_storage(r) :> mem[r.arr]) @@ mem
    /\ last' = "move_construct"
    /\ UNCHANGED <<parts, pc, out, res, total, m_r, log, s0>>

\* r2 = std::move(r) for an r2 made earlier, the caller goes on with r2
MoveAssign ==
    /\ Live /\ r.kind \in OwningKinds
    /\ Len(r.arr) <= MaxMoves
    /\ r' = defaulted_move(r)
    /\ mem' = (moved_storage(r) :> mem[r.arr]) @@ mem
    /\ last' = "move_assign"
    /\ UNCHANGED <<parts, pc, out, res, total, m_r, log, s0>>

\* orange::advance(r) on a sequence whose empty() is true; defined for an
\* interval of integers, where it is ++m_begin
AdvanceExhausted ==
    /\ Live /\ r.kind = "pair_of_values"
    /\ orange_empty(r)
    /\ r.b - r.e < MaxPast
    /\ r' = orange_advance(r)
    /\ last' = "advance"
    /\ UNCHANGED <<parts, mem, pc, out, res, total, m_r, log, s0>>

\* orange::empty(r)
Empty ==
    /\ Live /\ r.kind \in OrangeKinds
    /\ IsLeaf(r) => r.b - r.e <= MaxPast
    /\ out' = <<orange_empty(r)>>
    /\ last' = "empty"
    /\ UNCHANGED <<r, parts, mem, pc, res, total, m_r, log, s0>>
\* what a call of front_val hands back: an object of its own (ref is
\* FALSE, val the object) or a reference to storage (ref is TRUE).
\* orange::front_val of the complete dialect: the trait's front_val returns
\* by value, the overload synthesized from front_ref returns auto
front_val_returns(x) == [ref |-> FALSE, val |-> orange_front_val(x)]

\* orange::front_val of orange.hh : both overloads return decltype(auto),
\* and there only pair_of_values and mapping_range declare front_val
orange_hh_front_val_returns(x) ==
    IF x.kind \in {"pair_of_values", "mapping_range"}
    THEN [ref |-> FALSE, val |-> traits_front_val(x)]
    ELSE [ref |-> TRUE, loc |-> traits_front_ref(x)]

\* auto && v = orange::front_val(r)
FrontVal ==
    /\ Live /\ r.kind \in OrangeKinds /\ Readable(r)
    /\ ~orange_empty(r)
    /\ out' = <<front_val_returns(r)>>
    /\ last' = "front_val"
    /\ UNCHANGED <<r, parts, mem, pc, res, total, m_r, log, s0>>

\* the same call against orange.hh, on the types orange.hh has
FrontValHH ==
    /\ Live /\ r.kind \in {"pair_of_values", "pair_of_iterators", "std_pair"}
    /\ ~orange_empty(r)
    /\ out' = <<orange_hh_front_val_returns(r)>>
    /\ last' = "front_val"
    /\ UNCHANGED <<r, parts, mem, pc, res, total, m_r, log, s0>>

\* the container returned by collect is kept by the caller, who calls
\* as_range on it
AsRangeCollected ==
    /\ pc = "done" /\ last = "collect"
    /\ mem' = ("collected" :> res) @@ mem
    /\ r' = Rng("pair_of_iterators", 0, Len(res), "collected", <<>>, <<>>, FALSE)
    /\ pc' = "live"
    /\ last' = "as_range"
    /\ UNCHANGED <<parts, out, res, total, m_r, log, s0>>

\* r |take_collect| how_many
TakeCollect(how_many) ==
    /\ Live /\ r.kind \in OrangeKinds /\ Readable(r) /\ has_trait_advance(r)
    /\ IsLeaf(r) => r.b <= r.e
    /\ res' = take_collect(r, how_many).res
    /\ m_r' = take_collect(r, how_many).r
    /\ out' = <<how_many>>
    /\ pc' = "done"
    /\ last' = "take_collect"
    /\ UNCHANGED <<r, parts, mem, total, log, s0>>

\* r |foreach| func ; int & binds to what front_ref returns only
Foreach(func) ==
    /\ Live /\ r.kind \in OrangeKinds /\ Drainable(r)
    /\ func = "negate_me_in_place" => has_trait_front_ref(r)
    /\ res' = foreach(r, func, mem).calls
    /\ mem' = foreach(r, func, mem).mem
    /\ m_r' = foreach(r, func, mem).r
    /\ out' = <<func>>
    /\ pc' = "done"
    /\ last' = "foreach"
    /\ UNCHANGED <<r, parts, total, log, s0>>

\* after foreach over caller-owned storage: as_range(x) again
AsRangeAgain ==
    /\ pc = "done" /\ last = "foreach"
    /\ r.kind \in {"pair_of_iterators", "std_pair"}
    /\ pc' = "live"
    /\ last' = "as_range_again"
    /\ UNCHANGED <<r, parts, mem, out, res, total, m_r, log, s0>>

\* range::advance(r), also on a sequence whose empty() is true
RangeAdvance ==
    /\ Live /\ r.kind \in {"range_ints_t", "from_vector_t"}
    /\ r.kind = "range_ints_t"  => r.b - r.e < MaxPast
    /\ r.kind = "from_vector_t" => r.b - Len(mem[r.arr]) < MaxPast
    /\ r' = range_advance(r)
    /\ last' = "advance"
    /\ UNCHANGED <<parts, mem, pc, out, res, total, m_r, log, s0>>

\* range::pull(r) on a sequence whose empty() is true
RangePullExhausted ==
    /\ Live /\ r.kind \in {"range_ints_t", "from_vector_t"}
    /\ range_empty(r) = "true"
    /\ r.kind = "range_ints_t" => r.b - r.e < MaxPast
    /\ r' = range_pull(r).r
    /\ out' = IF range_pull(r).threw = "none"
              THEN <<range_pull(r).val>> ELSE <<>>
    /\ pc' = IF range_pull(r).threw = "none" THEN pc ELSE range_pull(r).threw
    /\ last' = "pull"
    /\ UNCHANGED <<parts, mem, res, total, m_r, log, s0>>

\* range::push_back(r, t)
RangePushBack(t) ==
    /\ Live /\ r.kind = "from_vector_t"
    /\ Len(mem[r.arr]) < MaxLen
    /\ mem' = from_vector_t_push_back(r, t)
    /\ last' = "push_back"
    /\ UNCHANGED <<r, parts, pc, out, res, total, m_r, log, s0>>

\* a caller that tests empty() before advance or pull goes on only while
\* the cursor has not passed the end; an unbounded interval is driven a
\* bounded number of steps by hand
CursorWithinReach ==
    LeafOf(r).kind \in {"pair_of_values", "range_ints_t"} =>
        /\ LeafOf(r).b <= LeafOf(r).e
        /\ LeafOf(r).e = INT_MAX => LeafOf(r).b < MaxReach

\* the steps of a caller that is building and driving a sequence
Drive ==
    \/ Write
    \/ MoveConstruct
    \/ MoveAssign
    \/ Empty
    \/ FrontVal
    \/ FrontValHH
    \/ \E F \in Funcs : last = "init" /\ MapR(F)
    \/ \E P \in Preds : last = "init" /\ Filter(P)
    \/ CursorWithinReach /\ Advance
    \/ CursorWithinReach /\ Pull
    \/ AdvanceExhausted
    \/ \E how_many \in -1..MaxTake : TakeCollect(how_many)
    \/ \E func \in ForeachFuncs : Foreach(func)
    \/ RangeEmpty
    \/ RangeAdvance
    \/ CursorWithinReach /\ RangePull
    \/ RangePullExhausted
    \/ \E t \in {5} : RangePushBack(t)

\* a sequence made by as_range over a container that was collected or
\* written by foreach is drained at once
NextStorage ==
    \/ last \notin {"as_range", "as_range_again"} /\ Drive
    \/ Drainable(r) /\ Collect
    \/ Drainable(r) /\ Accumulate
    \/ AsRangeCollected
    \/ AsRangeAgain

SpecStorage == InitStorage /\ [][NextStorage]_vars

(***************************************************************************)
(* Overload resolution of the public functions, and the calls they make.   *)
(* A call is recorded as [fn, depth, arg]: the trait function or function  *)
(* object called, the stage of the pipeline whose trait or function object *)
(* it is (0 is the leaf), and the cursor of the callee (trait functions)   *)
(* or the argument (function objects).                                     *)
(***************************************************************************)
\* the overloads of a public function whose enable_if condition, or whose
\* trailing return type, is well-formed for x
empty_overloads(x) ==
    IF has_trait_empty(x) THEN {"trait_empty"} ELSE {}

front_val_overloads(x) ==
    (IF has_trait_front_val(x) THEN {"trait_front_val"} ELSE {})
    \cup (IF ~has_trait_front_val(x) /\ has_trait_front_ref(x)
          THEN {"via_front_ref"} ELSE {})

front_ref_overloads(x) ==
    IF has_trait_front_ref(x) THEN {"trait_front_ref"} ELSE {}

advance_overloads(x) ==
    IF has_trait_advance(x) THEN {"trait_advance"} ELSE {}

\* a second overload that does not exclude a declared pull
pull_overloads_overlapping(x) ==
    (IF has_trait_pull(x) THEN {"trait_pull"} ELSE {})
    \cup (IF has_trait_front_val(x) /\ has_trait_advance(x)
          THEN {"via_front_val"} ELSE {})
    \cup (IF /\ ~has_trait_pull(x) /\ ~has_trait_front_val(x)
             /\ has_trait_front_ref(x) /\ has_trait_advance(x)
          THEN {"via_front_ref"} ELSE {})

\* no front_val or front_ref here returns void, so the two void overloads
\* are never the viable ones
pull_overloads(x) ==
    (IF has_trait_pull(x) THEN {"trait_pull"} ELSE {})
    \cup (IF /\ ~has_trait_pull(x) /\ has_trait_front_val(x)
             /\ has_trait_advance(x)
          THEN {"via_front_val"} ELSE {})
    \cup (IF /\ ~has_trait_pull(x) /\ ~has_trait_front_val(x)
             /\ has_trait_front_ref(x) /\ has_trait_advance(x)
          THEN {"via_front_ref"} ELSE {})

overloads(x, p) ==
    CASE p = "empty"     -> empty_overloads(x)
      [] p = "front_val" -> front_val_overloads(x)
      [] p = "front_ref" -> front_ref_overloads(x)
      [] p = "advance"   -> advance_overloads(x)
      [] p = "pull"      -> pull_overloads(x)

\* the call orange::p(x) compiles: exactly one overload is viable
invocable(x, p) == Cardinality(overloads(x, p)) = 1

\* the two overloads of operator| (forward_this_with_a_tag<R,foreach_tag_t>,
\* Func &&): the first is enabled by has_trait_front_ref, the second by its
\* absence and by orange::pull in its return type
foreach_overloads(x) ==
    (IF has_trait_front_ref(x) THEN {"front_ref_loop"} ELSE {})
    \cup (IF ~has_trait_front_ref(x) /\ invocable(x, "pull")
          THEN {"pull_loop"} ELSE {})

\* the public functions the body of an overload of foreach calls
foreach_body(o) ==
    CASE o = "front_ref_loop" -> {"empty", "front_ref", "advance"}
      [] o = "pull_loop"      -> {"empty", "pull"}

\* x |foreach| func compiles: one overload is selected and every call in
\* its body does
foreach_compiles(x) ==
    /\ Cardinality(foreach_overloads(x)) = 1
    /\ \A o \in foreach_overloads(x) :
          \A p \in foreach_body(o) : invocable(x, p)

Call(fn, d, arg) == [fn |-> fn, depth |-> d, arg |-> arg]

RECURSIVE front_val_calls(_), traits_front_val_calls(_), advance_calls(_)
RECURSIVE skip_calls(_)

\* mapping_range::orange_front_val : m_f(orange::front_val(m_r))
mapping_range_front_val_calls(x) ==
    front_val_calls(x.subs[1])
    \o <<Call(x.f[1], Depth(x), orange_front_val(x.subs[1]))>>

\* lookup_traits<R>::front_val(x) and what it calls
traits_front_val_calls(x) ==
    <<Call("front_val", Depth(x), x.b)>>
    \o CASE x.kind = "mapping_range" -> mapping_range_front_val_calls(x)
         [] x.kind = "filter_range"  -> front_val_calls(x.subs[1])
         [] OTHER                    -> <<>>

\* orange::front_val(x)
front_val_calls(x) ==
    IF has_trait_front_val(x)
    THEN traits_front_val_calls(x)
    ELSE <<Call("front_ref", Depth(x), x.b)>>

\* a skip loop that tests every element twice
RECURSIVE skip_calls_twice(_)
skip_calls_twice(x) ==
    IF orange_empty(x.subs[1]) THEN <<>>
    ELSE front_val_calls(x.subs[1])
         \o <<Call(x.f[1], Depth(x), orange_front_val(x.subs[1])),
              Call(x.f[1], Depth(x), orange_front_val(x.subs[1]))>>
         \o IF ApplyPred(x.f, orange_front_val(x.subs[1])) THEN <<>>
            ELSE advance_calls(x.subs[1])
                 \o skip_calls_twice(
                        [x EXCEPT !.subs = <<orange_advance(x.subs[1])>>])

\* filter_range::skip_if_necessary :
\* while(!orange::empty(m_r) && !m_f(orange::front_val(m_r))) advance(m_r)
skip_calls(x) ==
    IF orange_empty(x.subs[1]) THEN <<>>
    ELSE front_val_calls(x.subs[1])
         \o <<Call(x.f[1], Depth(x), orange_front_val(x.subs[1]))>>
         \o IF ApplyPred(x.f, orange_front_val(x.subs[1])) THEN <<>>
            ELSE advance_calls(x.subs[1])
                 \o skip_calls([x EXCEPT !.subs = <<orange_advance(x.subs[1])>>])

\* lookup_traits<R>::advance(x), which is orange::advance(x), and what it
\* calls
advance_calls(x) ==
    <<Call("advance", Depth(x), x.b)>>
    \o CASE x.kind = "mapping_range" -> advance_calls(x.subs[1])
         [] x.kind = "filter_range"  ->
                advance_calls(x.subs[1])
                \o skip_calls([x EXCEPT !.subs = <<orange_advance(x.subs[1])>>])
         [] OTHER                    -> <<>>

\* a map that applies the function to the first element when it is built
mapping_range_calls_eager(s, F) ==
    IF orange_empty(s) THEN <<>>
    ELSE <<Call(F[1], Depth(s) + 1, orange_front_val(s))>>

\* operator| (forward_this_with_a_tag<R,map_tag_t> f, Func && func) : the
\* range and the function are stored
mapping_range_calls(s, F) == <<>>

\* filter_range(RR && r, FF && f) : { skip_if_necessary(); }
filter_range_calls(s, P) ==
    skip_calls(Rng("filter_range", 0, 0, "", P, <<s>>, FALSE))

\* a pull that prefers the synthesis from front_val to the declared pull
pull_calls_front_val_first(x) ==
    IF has_trait_front_val(x) /\ has_trait_advance(x)
    THEN traits_front_val_calls(x) \o advance_calls(x)
    ELSE IF has_trait_pull(x)
    THEN <<Call("pull", Depth(x), x.b)>>
    ELSE <<Call("front_ref", Depth(x), x.b)>> \o advance_calls(x)

\* orange::pull(x) : the three overloads
pull_calls(x) ==
    IF has_trait_pull(x)
    THEN <<Call("pull", Depth(x), x.b)>>
    ELSE IF has_trait_front_val(x) /\ has_trait_advance(x)
    THEN traits_front_val_calls(x) \o advance_calls(x)
    ELSE <<Call("front_ref", Depth(x), x.b)>> \o advance_calls(x)

\* the loops of collect and of accumulate: while(!empty(r)) ... pull(r)
RECURSIVE pull_loop_calls(_)
pull_loop_calls(x) ==
    IF ~orange_empty(x)
    THEN pull_calls(x) \o pull_loop_calls(orange_pull(x).r)
    ELSE <<>>

collect_calls(x)    == pull_loop_calls(x)
accumulate_calls(x) == pull_loop_calls(x)

\* the loop of take_collect: front_val(r), advance(r)
RECURSIVE take_collect_calls(_, _)
take_collect_calls(x, how_many) ==
    IF ~orange_empty(x) /\ how_many > 0
    THEN front_val_calls(x) \o advance_calls(x)
         \o take_collect_calls(orange_advance(x), how_many - 1)
    ELSE <<>>

\* the loops of foreach: front_ref(r), advance(r), or pull(r)
RECURSIVE foreach_ref_calls(_)
foreach_ref_calls(x) ==
    IF ~orange_empty(x)
    THEN <<Call("front_ref", Depth(x), x.b)>> \o advance_calls(x)
         \o foreach_ref_calls(orange_advance(x))
    ELSE <<>>

foreach_calls(x) ==
    IF has_trait_front_ref(x) THEN foreach_ref_calls(x) ELSE pull_loop_calls(x)

(***************************************************************************)
(* A third caller, whose calls are observed: it makes a leaf sequence,     *)
(* builds a pipeline on it, drives it by hand or hands it to a terminal    *)
(* combinator; log collects the calls made on the way.                     *)
(***************************************************************************)
\* impl::iter_is_own_value<I> : m_i, operator!=, operator++, operator*
iter_is_own_value(i) == [m_i |-> i]
iter_ne(it, other)   == it.m_i # other.m_i
iter_inc(it)         == [it EXCEPT !.m_i = it.m_i + 1]

\* an operator* that yields the value after the cursor
iter_deref_next(it)  == it.m_i + 1

iter_deref(it)       == it.m_i

\* pair_of_values::orange_begin / orange_end
pair_of_values_orange_begin(x) == iter_is_own_value(x.b)
pair_of_values_orange_end(x)   == iter_is_own_value(x.e)

\* for(auto i : x) { ... i ... } : the values of i, in order
RECURSIVE range_for_loop(_, _, _)
range_for_loop(it, end, acc) ==
    IF iter_ne(it, end)
    THEN range_for_loop(iter_inc(it), end, Append(acc, iter_deref(it)))
    ELSE acc

range_for(x) ==
    range_for_loop(pair_of_values_orange_begin(x),
                   pair_of_values_orange_end(x), <<>>)

\* while(!empty(x)) { ... front_val(x) ...; advance(x); } : the values
\* of front_val, in order, and x as the loop leaves it
RECURSIVE while_not_empty_loop(_, _)
while_not_empty_loop(x, acc) ==
    IF ~orange_empty(x)
    THEN while_not_empty_loop(orange_advance(x), Append(acc, orange_front_val(x)))
    ELSE [res |-> acc, r |-> x]

\* a chaining operator that takes the caller's sequence by reference
after_chain_by_reference(x, worked) == worked

\* operator| (R r, tag) takes r by value and works on r, or on the m_r of
\* the forward_this_with_a_tag it was moved into: the caller's sequence x
\* after x | tag, worked being the copy as the combinator left it
after_chain(x, worked) == x

AnyBounds == (0..MaxInt) \X (0..MaxInt)

ObservedLeaves ==
       {ints2(b[1], b[2]) : b \in AnyBounds}
  \cup {ints1(u) : u \in 0..MaxInt}
  \cup {declares(D, "i") : D \in SUBSET Primitives}
  \cup {as_range_array("x"), std_pair("x"),
        dummy_int_range_with_pull_and_empty_only}

InitObserved ==
    /\ mem = TestArrays
    /\ r \in ObservedLeaves
    /\ parts = <<>>
    /\ pc = "live"
    /\ last = "init"
    /\ out = <<>>
    /\ res = <<>>
    /\ total = 0
    /\ m_r = r
    /\ log = <<>>
    /\ s0 = r

ObservedKinds == OrangeKinds \cup {"declares"}

\* the caller has built r and has not driven it yet
Undriven == pc = "live" /\ last \in {"init", "mapr", "filter"}

\* an interval made with its begin beyond its end is driven a bounded
\* number of steps
NotOverrun(x) ==
    (LeafOf(x).kind = "pair_of_values" /\ LeafOf(x).b > LeafOf(x).e)
        => LeafOf(x).b - s0.b < MaxPast

\* r |mapr| F
BuildMap(F) ==
    /\ Undriven /\ r.kind \in OrangeKinds /\ IntValued(r) /\ Readable(r)
    /\ Drainable(r) /\ Depth(r) < MaxDepth
    /\ r' = mapping_range(r, F)
    /\ log' = log \o mapping_range_calls(r, F)
    /\ last' = "mapr"
    /\ UNCHANGED <<parts, mem, pc, out, res, total, m_r, s0>>

\* r |filter| P
BuildFilter(P) ==
    /\ Undriven /\ r.kind \in OrangeKinds /\ IntValued(r) /\ Readable(r)
    /\ Drainable(r) /\ Depth(r) < MaxDepth
    /\ r' = filter_range(r, P)
    /\ log' = log \o filter_range_calls(r, P)
    /\ last' = "filter"
    /\ UNCHANGED <<parts, mem, pc, out, res, total, m_r, s0>>

\* orange::empty(r)
CallEmpty ==
    /\ pc = "live" /\ invocable(r, "empty")
    /\ last \in {"init", "mapr", "filter", "advance", "pull"}
    /\ out' = <<orange_empty(r)>>
    /\ last' = "empty"
    /\ UNCHANGED <<r, parts, mem, pc, res, total, m_r, log, s0>>

\* orange::front_val(r), on a sequence that has an element, before the
\* caller drives it
CallFrontVal ==
    /\ Undriven /\ invocable(r, "front_val")
    /\ ~orange_empty(r)
    /\ out' = <<orange_front_val(r)>>
    /\ log' = log \o front_val_calls(r)
    /\ last' = "front_val"
    /\ UNCHANGED <<r, parts, mem, pc, res, total, m_r, s0>>

\* orange::advance(r), on a sequence that has an element
CallAdvance ==
    /\ pc = "live" /\ invocable(r, "advance")
    /\ ~orange_empty(r) /\ NotOverrun(r)
    /\ r' = orange_advance(r)
    /\ log' = log \o advance_calls(r)
    /\ last' = "advance"
    /\ UNCHANGED <<parts, mem, pc, out, res, total, m_r, s0>>

\* orange::pull(r), on a sequence that has an element
CallPull ==
    /\ pc = "live" /\ invocable(r, "pull")
    /\ ~orange_empty(r) /\ NotOverrun(r)
    /\ r' = orange_pull(r).r
    /\ out' = <<orange_pull(r).val>>
    /\ log' = log \o pull_calls(r)
    /\ last' = "pull"
    /\ UNCHANGED <<parts, mem, pc, res, total, m_r, s0>>

\* for(auto i : r) over an interval
RangeFor ==
    /\ Undriven /\ r.kind = "pair_of_values" /\ Drainable(r)
    /\ res' = range_for(r)
    /\ pc' = "done"
    /\ last' = "range_for"
    /\ UNCHANGED <<r, parts, mem, out, total, m_r, log, s0>>

\* r | collect
DrainCollect ==
    /\ Undriven /\ r.kind \in ObservedKinds /\ Drainable(r)
    /\ invocable(r, "empty") /\ invocable(r, "pull")
    /\ res' = collect(r).res
    /\ m_r' = collect(r).r
    /\ r' = after_chain(r, collect(r).r)
    /\ log' = log \o collect_calls(r)
    /\ pc' = "done"
    /\ last' = "collect"
    /\ UNCHANGED <<parts, mem, out, total, s0>>

\* r | accumulate
DrainAccumulate ==
    /\ Undriven /\ r.kind \in ObservedKinds /\ Drainable(r)
    /\ invocable(r, "empty") /\ invocable(r, "pull")
    /\ total' = accumulate(r).total
    /\ m_r' = accumulate(r).r
    /\ r' = after_chain(r, accumulate(r).r)
    /\ log' = log \o accumulate_calls(r)
    /\ pc' = "done"
    /\ last' = "accumulate"
    /\ UNCHANGED <<parts, mem, out, res, s0>>

\* r |take_collect| how_many
DrainTakeCollect(how_many) ==
    /\ Undriven /\ r.kind \in ObservedKinds /\ Drainable(r)
    /\ invocable(r, "empty") /\ invocable(r, "front_val")
    /\ invocable(r, "advance")
    /\ res' = take_collect(r, how_many).res
    /\ m_r' = take_collect(r, how_many).r
    /\ r' = after_chain(r, take_collect(r, how_many).r)
    /\ log' = log \o take_collect_calls(r, how_many)
    /\ out' = <<how_many>>
    /\ pc' = "done"
    /\ last' = "take_collect"
    /\ UNCHANGED <<parts, mem, total, s0>>

\* r |foreach| [](auto && t){ ... }
DrainForeach ==
    /\ Undriven /\ r.kind \in ObservedKinds /\ Drainable(r)
    /\ foreach_compiles(r)
    /\ res' = foreach(r, "by_value", mem).calls
    /\ m_r' = foreach(r, "by_value", mem).r
    /\ r' = after_chain(r, foreach(r, "by_value", mem).r)
    /\ log' = log \o foreach_calls(r)
    /\ pc' = "done"
    /\ last' = "foreach"
    /\ UNCHANGED <<parts, mem, out, total, s0>>

\* zv2 |foreach| f; zv2 |foreach| f; : res is the pair of what the two
\* calls of foreach handed to f
ForeachTwice ==
    /\ Undriven /\ r.kind \in ObservedKinds /\ Drainable(r)
    /\ foreach_compiles(r)
    /\ LET first  == foreach(r, "by_value", mem)
           r1     == after_chain(r, first.r)
           second == foreach(r1, "by_value", mem)
       IN  /\ res' = <<first.calls, second.calls>>
           /\ m_r' = second.r
           /\ r' = after_chain(r1, second.r)
           /\ log' = log \o foreach_calls(r) \o foreach_calls(r1)
    /\ pc' = "done"
    /\ last' = "foreach_twice"
    /\ UNCHANGED <<parts, mem, out, total, s0>>

NextObserved ==
    \/ \E F \in Funcs : BuildMap(F)
    \/ \E P \in Preds : BuildFilter(P)
    \/ CallEmpty
    \/ CallFrontVal
    \/ CallAdvance
    \/ CallPull
    \/ RangeFor
    \/ DrainCollect
    \/ DrainAccumulate
    \/ \E how_many \in -1..MaxTake : DrainTakeCollect(how_many)
    \/ DrainForeach
    \/ ForeachTwice

SpecObserved == InitObserved /\ [][NextObserved]_vars

(***************************************************************************)
(* A fourth caller, for termination: the loops of the terminal combinators *)
(* run one iteration per step on the copy m_r.  The library is             *)
(* single-threaded and a combinator runs to completion once called, so a   *)
(* loop that can take its next iteration takes it: weak fairness of the    *)
(* next-state relation.                                                    *)
(***************************************************************************)
FiniteLeaves ==
       {ints2(b[1], b[2]) : b \in Bounds01}
  \cup {as_range_array(a) : a \in {"x", "i"}}
  \cup {std_pair("x")}

\* the pipelines of at most d stages of map and filter over the leaves
RECURSIVE Staged(_)
Staged(d) ==
    IF d = 0 THEN FiniteLeaves
    ELSE LET S == Staged(d - 1)
         IN  S \cup {mapping_range(s, F) : s \in S, F \in Funcs}
               \cup {filter_range(s, P) : s \in S, P \in Preds}

\* the zips of up to MaxZip leaves
Zipped ==
    UNION {{zip_val(rs) : rs \in [1..n -> FiniteLeaves]} : n \in 2..MaxZip}

InitDrain ==
    /\ mem = TestArrays
    /\ r \in Staged(MaxStages) \cup Zipped
    /\ parts = <<>>
    /\ pc = "live"
    /\ last = "init"
    /\ out = <<>>
    /\ res = <<>>
    /\ total = 0
    /\ m_r = r
    /\ log = <<>>
    /\ s0 = r

\* r | collect : the call, r is copied into the parameter
CollectCall ==
    /\ pc = "live"
    /\ m_r' = r
    /\ res' = <<>>
    /\ pc' = "collect"
    /\ last' = "call"
    /\ UNCHANGED <<r, parts, mem, out, total, log, s0>>

\* a loop that pushes the front element and does not pull
CollectStepNoPull ==
    /\ pc = "collect"
    /\ IF ~orange_empty(m_r)
       THEN UNCHANGED <<res, m_r, pc, last>>
       ELSE /\ pc' = "done"
            /\ last' = "collect"
            /\ UNCHANGED <<res, m_r>>
    /\ UNCHANGED <<r, parts, mem, out, total, log, s0>>

\* while(!orange::empty(r)) { res.push_back(orange::pull(r)); } return res;
CollectStep ==
    /\ pc = "collect"
    /\ IF ~orange_empty(m_r)
       THEN /\ res' = Append(res, orange_pull(m_r).val)
            /\ m_r' = orange_pull(m_r).r
            /\ last' = "pull"
            /\ UNCHANGED pc
       ELSE /\ pc' = "done"
            /\ last' = "collect"
            /\ UNCHANGED <<res, m_r>>
    /\ UNCHANGED <<r, parts, mem, out, total, log, s0>>

\* r | accumulate : the call
AccumulateCall ==
    /\ pc = "live" /\ IntValued(r)
    /\ m_r' = r
    /\ total' = 0
    /\ pc' = "accumulate"
    /\ last' = "call"
    /\ UNCHANGED <<r, parts, mem, out, res, log, s0>>

\* while(!orange::empty(r)) { total += orange::pull(r); } return total;
AccumulateStep ==
    /\ pc = "accumulate"
    /\ IF ~orange_empty(m_r)
       THEN /\ total' = total + orange_pull(m_r).val
            /\ m_r' = orange_pull(m_r).r
            /\ last' = "pull"
            /\ UNCHANGED pc
       ELSE /\ pc' = "done"
            /\ last' = "accumulate"
            /\ UNCHANGED <<total, m_r>>
    /\ UNCHANGED <<r, parts, mem, out, res, log, s0>>

\* r |foreach| [](auto && t){ ... } : the call
ForeachCall ==
    /\ pc = "live"
    /\ m_r' = r
    /\ res' = <<>>
    /\ pc' = "foreach"
    /\ last' = "call"
    /\ UNCHANGED <<r, parts, mem, out, total, log, s0>>

\* while(!orange::empty(r.m_r)) { func(orange::front_ref(r.m_r));
\* orange::advance(r.m_r); }, or { func(orange::pull(r.m_r)); }
ForeachStep ==
    /\ pc = "foreach"
    /\ IF ~orange_empty(m_r)
       THEN /\ res' = Append(res, IF has_trait_front_ref(m_r)
                                  THEN Deref(orange_front_ref(m_r))
                                  ELSE orange_pull(m_r).val)
            /\ m_r' = IF has_trait_front_ref(m_r)
                      THEN orange_advance(m_r)
                      ELSE orange_pull(m_r).r
            /\ last' = "func"
            /\ UNCHANGED pc
       ELSE /\ pc' = "done"
            /\ last' = "foreach"
            /\ UNCHANGED <<res, m_r>>
    /\ UNCHANGED <<r, parts, mem, out, total, log, s0>>

NextDrain ==
    \/ CollectCall
    \/ CollectStep
    \/ AccumulateCall
    \/ AccumulateStep
    \/ ForeachCall
    \/ ForeachStep

SpecDrain == InitDrain /\ [][NextDrain]_vars /\ WF_vars(NextDrain)

(***************************************************************************)
(* Properties.                                                             *)
(***************************************************************************)
RECURSIVE SumSeq(_)
SumSeq(q) == IF q = <<>> THEN 0 ELSE Head(q) + SumSeq(Tail(q))

MinOf(S) == CHOOSE n \in S : \A o \in S : n <= o

\* the trait of the type of x declares empty, front_val and advance only
DeclaresOnlyEmptyFrontValAdvance(x) ==
    /\ has_trait_empty(x) /\ has_trait_front_val(x) /\ has_trait_advance(x)
    /\ ~has_trait_front_ref(x) /\ ~has_trait_pull(x)

\* C1: for a type whose trait declares only empty, front_val and advance,
\* at every position the synthesized pull returns the value front_val
\* returns at that position and leaves the range in the state one advance
\* produces.
C1_PullIsFrontValThenAdvance ==
    [][ (last' = "pull" /\ DeclaresOnlyEmptyFrontValAdvance(r))
            => /\ out' = <<traits_front_val(r)>>
               /\ r' = traits_advance(r) ]_vars

\* a pull at a position in the middle of an interval
C1_Witness ==
    /\ last = "pull" /\ r.kind = "pair_of_values"
    /\ r.b = 2 /\ r.e = 3 /\ out = <<1>>

\* every filter_range stored in x is empty or is at an element that
\* satisfies its predicate
RECURSIVE FilterInvariant(_)
FilterInvariant(x) ==
    /\ x.kind = "filter_range"
          => \/ orange_empty(x)
             \/ ApplyPred(x.f, orange_front_val(x.subs[1]))
    /\ \A k \in DOMAIN x.subs : FilterInvariant(x.subs[k])

\* C2: in every reachable state of a filtered sequence (after construction
\* and after every advance) the filtered sequence is empty or the current
\* element of its underlying sequence satisfies the predicate.
C2_FilterInvariant ==
    r.kind \in OrangeKinds => FilterInvariant(r)

\* an advance of a filter that had to skip an element
C2_Witness ==
    /\ last = "advance" /\ r.kind = "filter_range" /\ r.f = <<"odd_t">>
    /\ r.subs[1] = ints2(3, TestUpper10)

\* C3: draining s |filter| p by collect or accumulate produces exactly the
\* elements of s that satisfy p, each once and in their order in s; the
\* interval [0,10) filtered by odd yields 1,3,5,7,9 (sum 25), by even sum
\* 20, by x>5 sum 30.
C3_FilterYieldsSatisfying ==
    [][ last' = "filter" =>
          LET kept == SelectSeq(collect(r).res, LAMBDA v : ApplyPred(r'.f, v))
          IN  /\ collect(r').res = kept
              /\ accumulate(r').total = SumSeq(kept)
              /\ (r = ints1(TestUpper10) /\ r'.f = <<"odd_t">>)
                    => /\ collect(r').res = <<1, 3, 5, 7, 9>>
                       /\ accumulate(r').total = 25
              /\ (r = ints1(TestUpper10) /\ r'.f = <<"even_t">>)
                    => accumulate(r').total = 20
              /\ (r = ints1(TestUpper10) /\ r'.f = <<"greater_than_5_t">>)
                    => accumulate(r').total = 30 ]_vars

\* ints(10) |filter| odd_t{} | accumulate has returned 25
C3_Witness ==
    /\ last = "accumulate" /\ r.kind = "filter_range" /\ r.f = <<"odd_t">>
    /\ r.subs[1] = ints2(1, TestUpper10)
    /\ total = 25

\* C4: the mapped sequence s |mapr| f has the length of s and its i-th
\* element is f applied to the i-th element of s; it is empty exactly when
\* s is empty and its advance advances s by exactly one position.
C4_MapPointwise ==
    [][ /\ last' = "mapr" =>
            /\ Len(collect(r').res) = Len(collect(r).res)
            /\ \A n \in 1..Len(collect(r).res) :
                  collect(r').res[n] = ApplyFunc(r'.f, collect(r).res[n])
        /\ r'.kind = "mapping_range" =>
            (orange_empty(r') <=> orange_empty(r'.subs[1]))
        /\ (last' = "advance" /\ r.kind = "mapping_range") =>
            r' = [r EXCEPT !.subs = <<orange_advance(r.subs[1])>>] ]_vars

\* ints(5) |mapr| square | collect has returned the squares
C4_Witness ==
    /\ last = "collect" /\ r = mapping_range(ints1(TestUpper5), <<"square">>)
    /\ res = <<0, 1, 4, 9, 16>>

\* C5: collecting s |mapr| f |mapr| g yields the container that collecting
\* s |mapr| (g after f) yields.
C5_MapComposes ==
    [][ (last' = "mapr" /\ r.kind = "mapping_range") =>
            collect(r').res
              = collect(mapping_range(r.subs[1], r.f \o r'.f)).res ]_vars

\* ints(5) |mapr| square |mapr| negate_t{} | collect has returned
C5_Witness ==
    /\ last = "collect"
    /\ r = mapping_range(mapping_range(ints1(TestUpper5), <<"square">>),
                         <<"negate_t">>)
    /\ res = <<0, -1, -4, -9, -16>>

\* C6: accumulate returns the sum of all elements the sequence produces,
\* added in production order onto an accumulator initialised to zero; it
\* is 10 for the interval [0,5) and 0 for a sequence empty at the start.
C6_AccumulateIsSum ==
    last = "accumulate" =>
        /\ total = SumSeq(collect(r).res)
        /\ orange_empty(r) => total = 0
        /\ r = ints1(TestUpper5) => total = 10

\* ints(5) | accumulate has returned 10
C6_Witness ==
    last = "accumulate" /\ r = ints1(TestUpper5) /\ total = 10

\* C7: zipping k sequences of the same finite length N and draining the
\* zip yields exactly N tuples, the i-th holding the i-th element of every
\* member.
C7_ZipAligned ==
    [][ last' = "zip_val" /\ r'.kind = "zip_t" =>
          LET members == Append(parts, r)
              N       == Len(collect(r).res)
          IN  (\A k \in DOMAIN members : Len(collect(members[k]).res) = N)
                => /\ Len(collect(r').res) = N
                   /\ \A n \in 1..N : \A k \in DOMAIN members :
                         collect(r').res[n][k] = collect(members[k]).res[n]
                   /\ \A n \in 1..N : DOMAIN collect(r').res[n] = DOMAIN members
          ]_vars

\* zip_val(x, i) | collect has returned three aligned tuples
C7_Witness ==
    /\ last = "collect" /\ r.kind = "zip_t"
    /\ r.subs[1].arr = "x" /\ r.subs[2].arr = "i"
    /\ res = << <<7, 1>>, <<8, 2>>, <<9, 3>> >>

\* C8 as stated: in every reachable state of a zipped sequence, empty(zip)
\* is true if and only if at least one member sequence is empty.
C8_AsStated ==
    /\ r.kind = "zip_t" =>
          (orange_empty(r) <=> \E k \in DOMAIN r.subs : orange_empty(r.subs[k]))
    /\ r.kind = "zip_val_t" =>
          (range_empty(r) = "true"
              <=> \E k \in DOMAIN r.subs : range_empty(r.subs[k]) = "true")

\* C8, amended: in every reachable state of a zipped sequence, whenever
\* empty(zip) returns, it returns true if and only if at least one member
\* sequence is empty (zip_t::zip_empty always returns; zip_val_t::empty of a
\* strict zip may fail its assertion instead of returning).
C8_ZipEmptyIffAnyMemberEmpty ==
    /\ r.kind = "zip_t" =>
          (orange_empty(r) <=> \E k \in DOMAIN r.subs : orange_empty(r.subs[k]))
    /\ r.kind = "zip_val_t" =>
          /\ range_empty(r) = "true"
                => \E k \in DOMAIN r.subs : range_empty(r.subs[k]) = "true"
          /\ range_empty(r) = "false"
                => \A k \in DOMAIN r.subs : range_empty(r.subs[k]) = "false"
    /\ (last = "empty" /\ r.kind = "zip_val_t" /\ pc # "aborted") =>
          (out = <<"true">>
              <=> \E k \in DOMAIN r.subs : range_empty(r.subs[k]) = "true")

\* empty() of a zip has returned true with one member empty and one not
C8_Witness ==
    /\ last = "empty" /\ r.kind = "zip_val_t" /\ out = <<"true">>
    /\ range_empty(r.subs[1]) = "true" /\ range_empty(r.subs[2]) = "false"

AllFinite(z) == \A k \in DOMAIN z.subs : ~z.subs[k].tparam
Lengths(z)   == {z.subs[k].e - z.subs[k].b : k \in DOMAIN z.subs}

\* the lengths of the members that are not unbounded intervals
FiniteLengths(z) ==
    {z.subs[k].e - z.subs[k].b : k \in {j \in DOMAIN z.subs : ~z.subs[j].tparam}}

\* C9: under the relaxed policy, draining a zip of finite sequences of
\* unequal lengths yields as many tuples as the shortest member has
\* elements; no assertion fails and no member is advanced past its end.
C9_RelaxedTruncates ==
    /\ (last = "zip_relax_length" /\ AllFinite(r)) =>
          /\ ~operator_shl(r).aborted
          /\ Len(operator_shl(r).res) = MinOf(Lengths(r))
          /\ \A k \in DOMAIN r.subs :
                operator_shl(r).r.subs[k].b <= r.subs[k].e
          /\ range_empty(r) # "assert"
    /\ (last = "print" /\ r.kind = "zip_val_t" /\ ~r.tparam /\ AllFinite(r)) =>
          /\ pc = "done"
          /\ Len(res) = MinOf(Lengths(r))
          /\ \A k \in DOMAIN r.subs : m_r.subs[k].b <= m_r.subs[k].e

\* a relaxed zip of an interval of length 1 and one of length 3 was drained
C9_Witness ==
    /\ last = "print" /\ r.kind = "zip_val_t" /\ ~r.tparam /\ pc = "done"
    /\ r.subs[1] = range_ints2(0, 1) /\ r.subs[2] = range_ints2(0, 3)
    /\ res = << <<0, 0>> >>

\* C10: under the strict policy, whenever empty() finds at least one member
\* empty, every member is empty or definitely infinite; draining a strict
\* zip whose finite members have unequal lengths reaches the assertion
\* failure at the step where the shortest member becomes empty, instead of
\* returning true.
C10_StrictAsserts ==
    (r.kind = "zip_val_t" /\ r.tparam) =>
        /\ range_empty(r) = "true" =>
              \A k \in DOMAIN r.subs :
                  \/ range_empty(r.subs[k]) = "true"
                  \/ is_definitely_infinite(r.subs[k])
        /\ (last = "empty" /\ out = <<"true">>) =>
              \A k \in DOMAIN r.subs :
                  \/ range_empty(r.subs[k]) = "true"
                  \/ is_definitely_infinite(r.subs[k])
        /\ (last = "print" /\ Cardinality(FiniteLengths(r)) > 1) =>
              /\ pc = "aborted"
              /\ \E k \in DOMAIN m_r.subs : m_r.subs[k].b = m_r.subs[k].e
              /\ \A k \in DOMAIN m_r.subs : m_r.subs[k].b <= m_r.subs[k].e
              /\ Len(res) = MinOf(FiniteLengths(r))

\* a strict zip of intervals of lengths 1 and 3 was drained and aborted
\* after one tuple
C10_Witness ==
    /\ last = "print" /\ r.kind = "zip_val_t" /\ r.tparam /\ pc = "aborted"
    /\ r.subs[1] = range_ints2(0, 1) /\ r.subs[2] = range_ints2(0, 3)
    /\ res = << <<0, 0>> >>

\* C11: an owning sequence constructed by as_range from a temporary
\* container and drained at once by collect or accumulate reproduces all
\* the elements of the container, in their order.
C11_OwningDrainReproduces ==
    [][ (last = "init" /\ r.kind \in OwningKinds) =>
          /\ last' = "collect"    => res' = mem["c"]
          /\ last' = "accumulate" => total' = SumSeq(mem["c"]) ]_vars

\* as_range(std::vector<int>{1,2,3}) | accumulate has returned 6
C11_Witness ==
    /\ last = "accumulate" /\ r = owning_range(FALSE, "c")
    /\ mem["c"] = <<1, 2, 3>> /\ total = 6

\* C12: after an owning sequence is move-constructed or move-assigned,
\* every primitive of the destination reads and writes the container
\* stored inside the destination object, never storage of the moved-from
\* object.
C12_MovedOwnsItsStorage ==
    (r.kind \in OwningKinds /\ ~orange_empty(r)) =>
        orange_front_ref(r).arr = r.arr

\* C13: collecting a finite sequence into a container c, converting c
\* back to a sequence with as_range and collecting again yields a
\* container equal to c.
C13_RoundTrip ==
    [][ (last = "as_range" /\ r.arr = "collected" /\ last' = "collect") =>
          /\ res' = res
          /\ res' = mem["collected"] ]_vars

\* a container of three elements has been collected a second time
C13_Witness ==
    /\ last = "collect" /\ r.kind = "pair_of_iterators"
    /\ r.arr = "collected" /\ res = <<10, 20, 30>>

Min(a, b) == IF a <= b THEN a ELSE b
Max(a, b) == IF a >= b THEN a ELSE b

\* x after n calls of orange::advance
\* C14: for a sequence of length L and an integer n, s |take_collect| n
\* returns exactly the first min(max(n,0), L) elements of s in order; for
\* n <= 0 the result is empty.
C14_TakeCollectPrefix ==
    last = "take_collect" =>
        /\ out[1] <= 0 => res = <<>>
        /\ Drainable(r) =>
              res = SubSeq(collect(r).res, 1,
                           Min(Max(out[1], 0), Len(collect(r).res)))
        /\ r.kind = "pair_of_values" =>
              res = [j \in 1..Min(Max(out[1], 0), r.e - r.b) |-> r.b + j - 1]

\* take_collect with a count above the length has returned the whole
\* filtered sequence
C14_Witness ==
    /\ last = "take_collect" /\ out = <<3>>
    /\ r.kind = "filter_range" /\ r.f = <<"odd_t">>
    /\ res = <<1, 3>>

\* C15: take_collect(n) does not consume beyond what it returns: it never
\* reads, tests or advances past the last collected element of any
\* underlying sequence, also when the sequence is a filtered sequence over
\* an unbounded interval (the cursor of the interval is at most right
\* after the last collected element).
C15_NothingPastLastCollected ==
    (/\ last = "take_collect" /\ res # <<>>
     /\ LeafOf(r).kind = "pair_of_values"
     /\ r.kind \in {"pair_of_values", "filter_range"})
        => LeafOf(m_r).b <= res[Len(res)] + 1

\* C16: s |foreach| f applies f exactly once to each element of s, in
\* sequence order, and returns only when the sequence it drains is empty;
\* it produces no result.
C16_ForeachEachOnceInOrder ==
    [][ last' = "foreach" =>
          /\ res' = collect(r).res
          /\ m_r' = collect(r).r
          /\ orange_empty(m_r')
          /\ total' = total ]_vars

\* foreach with a by-value function has seen 10, 20, 30
C16_Witness ==
    /\ last = "foreach" /\ out = <<"by_value">>
    /\ r.kind = "std_pair" /\ res = <<10, 20, 30>>

\* C17: when the drained sequence declares front_ref, foreach hands f a
\* reference to the element's storage: after as_range(x) |foreach| f over
\* caller-owned storage every write f made is present in x; negating
\* {1980,1982,1986,1990} in place makes a later accumulate return -7938.
C17_ForeachWritesInPlace ==
    [][ /\ (/\ last' = "foreach" /\ out' = <<"negate_me_in_place">>
             /\ r.kind \in {"pair_of_iterators", "std_pair"}) =>
               /\ DOMAIN mem' = DOMAIN mem
               /\ \A a \in DOMAIN mem \ {r.arr} : mem'[a] = mem[a]
               /\ Len(mem'[r.arr]) = Len(mem[r.arr])
               /\ \A n \in 1..Len(mem[r.arr]) :
                     mem'[r.arr][n] = IF n > r.b THEN -mem[r.arr][n]
                                                ELSE mem[r.arr][n]
        /\ (/\ last = "as_range_again" /\ last' = "accumulate"
             /\ out = <<"negate_me_in_place">> /\ r.b = 0
             /\ res = <<1980, 1982, 1986, 1990>>) =>
               total' = -7938 ]_vars

\* as_range(x) | accumulate has returned -7938 after the foreach
C17_Witness ==
    /\ last = "accumulate" /\ total = -7938
    /\ r = as_range_lvalue("c") /\ out = <<"negate_me_in_place">>

\* what empty(x) returns is true
Exhausted(x) ==
    IF x.kind \in RangeKinds THEN range_empty(x) = "true" ELSE orange_empty(x)

\* the operations a caller applies to a sequence it holds
OnSameSequence == {"empty", "front_val", "advance", "pull", "push_back"}

C19_PullFromEmptyRaises ==
    [][ (/\ r.kind \in RangeKinds /\ range_empty(r) = "true"
         /\ last' = "pull") => pc' = "pull_from_empty_range_error" ]_vars

\* the object or the storage a result of front_val denotes, read in memory m
Held(o, m) == IF o.ref THEN m[o.loc.arr][o.loc.idx + 1] ELSE o.val

\* C20: front_val always returns a value copy: when it is synthesized from
\* a declared front_ref, what it returned does not alias the element's
\* storage, so a later write through front_ref does not change it.
C20_FrontValIsACopy ==
    [][ (last = "front_val" /\ last' = "write") =>
            /\ out' = out
            /\ Held(out'[1], mem') = Held(out[1], mem) ]_vars

\* the calls the last step added to the log
NewCalls == SubSeq(log', Len(log) + 1, Len(log'))

\* the trait functions of x itself among the calls cs, in order
OwnTraitCalls(x, cs) ==
    LET own == SelectSeq(cs, LAMBDA c : c.depth = Depth(x)
                                        /\ c.fn \in Primitives)
    IN  [k \in 1..Len(own) |-> own[k].fn]

\* the arguments of the calls of fn at stage d among the calls cs, in order
ArgsOf(cs, fn, d) ==
    LET sel == SelectSeq(cs, LAMBDA c : c.depth = d /\ c.fn = fn)
    IN  [k \in 1..Len(sel) |-> sel[k].arg]

\* C21: pull resolution is first-match in a fixed order: if the trait
\* declares pull, orange::pull makes exactly one call of the declared pull
\* and no call of front_val, front_ref or advance, even when those are
\* declared too; the front_val+advance synthesis is used only when pull is
\* absent, the front_ref+advance synthesis only when pull and front_val
\* are both absent.
C21_PullFirstMatch ==
    [][ last' = "pull" =>
          /\ has_trait_pull(r) =>
                NewCalls = <<Call("pull", Depth(r), r.b)>>
          /\ (~has_trait_pull(r) /\ has_trait_front_val(r)) =>
                OwnTraitCalls(r, NewCalls) = <<"front_val", "advance">>
          /\ (~has_trait_pull(r) /\ ~has_trait_front_val(r)) =>
                OwnTraitCalls(r, NewCalls) = <<"front_ref", "advance">>
          /\ OwnTraitCalls(r, NewCalls) = <<"front_val", "advance">>
                => ~has_trait_pull(r)
          /\ OwnTraitCalls(r, NewCalls) = <<"front_ref", "advance">>
                => (~has_trait_pull(r) /\ ~has_trait_front_val(r)) ]_vars

\* pull on a type that declares all five primitives has called the
\* declared pull
C21_Witness ==
    /\ last = "pull" /\ r.kind = "declares" /\ r.tparam = Primitives
    /\ log = <<Call("pull", 0, 0)>>

\* a type needs a read primitive, and advance unless it declares pull
MinimumRequirement(D) ==
    /\ D \cap {"front_val", "front_ref", "pull"} # {}
    /\ "pull" \in D \/ "advance" \in D

\* C22: capability closure: for every set D of declared primitives the
\* public pull is invocable iff pull is in D or advance and one of
\* front_val, front_ref are in D; the public front_val is invocable iff
\* front_val or front_ref is in D; every primitive in D stays invocable,
\* and no call is ambiguous.
C22_CapabilityClosure ==
    r.kind = "declares" =>
        LET D == r.tparam
        IN  /\ invocable(r, "pull") <=>
                  \/ "pull" \in D
                  \/ "advance" \in D /\ D \cap {"front_val", "front_ref"} # {}
            /\ invocable(r, "front_val") <=>
                  D \cap {"front_val", "front_ref"} # {}
            /\ \A p \in D : invocable(r, p)
            /\ \A p \in Primitives : Cardinality(overloads(r, p)) <= 1

\* pull, synthesized from front_ref and advance, has run on a type that
\* declares empty, advance and front_ref only
C22_Witness ==
    /\ last = "pull" /\ r.kind = "declares"
    /\ r.tparam = {"empty", "advance", "front_ref"}
    /\ out = <<1>> /\ r.b = 1

\* C23: ints(l,u) is the half-open interval [l,u): it produces exactly
\* the integers x with l <= x < u in increasing order and is then empty;
\* it is empty at construction whenever l >= u, and ints(u) equals
\* ints(0,u).
C23_HalfOpenInterval ==
    /\ (last = "empty" /\ r = s0 /\ r.kind = "pair_of_values") =>
          (out[1] <=> r.b >= r.e)
    /\ (last = "pull" /\ s0.kind = "pair_of_values" /\ r.kind = s0.kind) =>
          (s0.b <= out[1] /\ out[1] < s0.e)
    /\ (last = "collect" /\ r.kind = "pair_of_values") =>
          /\ res = [k \in 1..(r.e - r.b) |-> r.b + k - 1]
          /\ orange_empty(m_r)
    /\ \A u \in 0..MaxInt : ints1(u) = ints2(0, u)

\* C24: for an interval s, iterating a cursor from begin(s) until it
\* equals end(s) visits the same values in the same order as the loop
\* while(!empty(s)) { front_val(s); advance(s); }, and leaves the cursor of
\* s itself unchanged.
C24_BeginEndAgreesWithPrimitives ==
    [][ last' = "range_for" =>
          /\ res' = while_not_empty_loop(r, <<>>).res
          /\ r' = r ]_vars

\* the range-based for over ints(1,3) has visited 1 and 2
C24_Witness ==
    /\ last = "range_for" /\ r = ints2(1, 3) /\ res = <<1, 2>>

\* C25: map is lazy: building s |mapr| f invokes f zero times and advances
\* no sequence; f is invoked only by a later front_val or pull on the
\* mapped sequence, once per such call.
C25_MapIsLazy ==
    [][ /\ last' = "mapr" => (NewCalls = <<>> /\ r'.subs[1] = r)
        /\ (r.kind = "mapping_range" /\ last' \in {"front_val", "pull"}) =>
              ArgsOf(NewCalls, r.f[1], Depth(r)) =
                  <<orange_front_val(r.subs[1])>>
        /\ (r.kind = "mapping_range" /\ last' \in {"empty", "advance"}) =>
              ArgsOf(NewCalls, r.f[1], Depth(r)) = <<>> ]_vars

\* front_val on ints(1,3) |mapr| negate_t has called negate_t once, on 1
C25_Witness ==
    /\ last = "front_val" /\ r = mapping_range(ints2(1, 3), <<"negate_t">>)
    /\ out = <<-1>>
    /\ log = <<Call("front_val", 1, 0), Call("front_val", 0, 1),
               Call("negate_t", 1, 1)>>

\* C26: foreach is dispatched through the synthesized interface for every
\* representation: for every declared set that contains empty and meets the
\* minimum requirement, s |foreach| f is invocable, uses the
\* front_ref+advance loop when front_ref is declared and the pull loop
\* otherwise, and the selected loop only calls operations in the
\* capability closure of the type.
C26_ForeachForEveryRepresentation ==
    (/\ r.kind = "declares" /\ "empty" \in r.tparam
     /\ MinimumRequirement(r.tparam)) =>
        /\ foreach_overloads(r) = IF "front_ref" \in r.tparam
                                  THEN {"front_ref_loop"} ELSE {"pull_loop"}
        /\ \A o \in foreach_overloads(r) :
              \A p \in foreach_body(o) : invocable(r, p)
        /\ foreach_compiles(r)

RECURSIVE StageAt(_, _)
StageAt(x, d) == IF Depth(x) = d THEN x ELSE StageAt(x.subs[1], d)

\* the pipeline x as it was built, on the leaf as the caller made it
RECURSIVE Rewind(_)
Rewind(x) ==
    CASE x.kind = "mapping_range" -> mapping_range(Rewind(x.subs[1]), x.f)
      [] x.kind = "filter_range"  -> filter_range(Rewind(x.subs[1]), x.f)
      [] OTHER                    -> s0

\* the pipeline the log is about: the caller's, or the copy a combinator
\* drained
Observed == IF pc = "live" THEN r ELSE m_r

\* C28: when a filtered sequence is constructed over a finite sequence and
\* then drained (by advance or by synthesized pull), the predicate is
\* evaluated exactly once on each underlying element, in underlying order,
\* and the underlying sequence is advanced exactly once per underlying
\* element.
C28_PredicateOncePerElement ==
    (/\ last \notin {"foreach_twice", "range_for"}
     /\ Observed.kind \in {"mapping_range", "filter_range"}
     /\ orange_empty(Observed)) =>
        \A d \in 1..Depth(Observed) :
            LET stage == StageAt(Observed, d)
                under == collect(Rewind(stage.subs[1])).res
            IN  stage.kind = "filter_range" =>
                  /\ ArgsOf(log, stage.f[1], d) = under
                  /\ Len(ArgsOf(log, "advance", d - 1)) = Len(under)

\* ints(0,3) |filter| odd_t has been drained by hand: odd_t saw 0, 1, 2
C28_Witness ==
    /\ pc = "live" /\ last \in {"advance", "pull"}
    /\ s0 = ints2(0, 3) /\ r.kind = "filter_range" /\ r.f = <<"odd_t">>
    /\ orange_empty(r)
    /\ ArgsOf(log, "odd_t", 1) = <<0, 1, 2>>

\* C29: when s |mapr| f |filter| p is drained by collect or accumulate,
\* the map function f is invoked exactly once per element of s (f is not
\* invoked again for the elements that pass the predicate).
C29_MapOncePerElementUnderFilter ==
    (/\ last \in {"collect", "accumulate"}
     /\ r.kind = "filter_range" /\ r.subs[1].kind = "mapping_range"
     /\ Depth(r) = 2) =>
        ArgsOf(log, r.subs[1].f[1], 1) = collect(s0).res

\* the number of underlying elements that remain under x
RECURSIVE Remaining(_), RemainingIn(_, _)
RemainingIn(xs, k) ==
    IF k > Len(xs) THEN 0 ELSE Remaining(xs[k]) + RemainingIn(xs, k + 1)

Remaining(x) == IF IsLeaf(x) THEN x.e - x.b ELSE RemainingIn(x.subs, 1)

\* C30: draining terminates: for every pipeline built from map, filter and
\* zip over finite intervals ints(l,u) with l <= u and finite iterator
\* pairs, collect, accumulate and foreach eventually return, because every
\* iteration of the drain loop, and every advance of a sequence that is
\* not empty (an iteration of the filter skip loop), strictly decreases
\* the number of remaining underlying elements, which is never negative.
C30_DrainingTerminates ==
    /\ <>(pc = "done")
    /\ [][ (pc \in {"collect", "accumulate", "foreach"} /\ pc' = pc)
              => Remaining(m_r') < Remaining(m_r) ]_vars
    /\ [](/\ Remaining(m_r) >= 0
          /\ ~orange_empty(m_r) =>
                Remaining(orange_advance(m_r)) < Remaining(m_r))

\* collect has returned the two odd elements of the array x after a
\* filter skipped the even one
C30_Witness ==
    /\ pc = "done" /\ last = "collect"
    /\ r = filter_range(as_range_array("x"), <<"odd_t">>)
    /\ res = <<7, 9>> /\ Remaining(m_r) = 0
====
